---- MODULE Spec2Model ----
(***************************************************************************)
(* Model of foxgeoip: the IPFilter built by New from functional options,   *)
(* its Allowed decision and its FilterIP middleware.                       *)
(*                                                                         *)
(* A Go string is a sequence of one-character strings, so that             *)
(* strings.ToUpper and strings.TrimSpace are computed character by         *)
(* character and never as the identity.  The GeoIP2 reader, the client-IP  *)
(* strategy, the bypass filters and the next/block handlers belong to      *)
(* other packages; each is an opaque call whose outcome is drawn from the  *)
(* results its signature allows.  slog output has no effect on any value   *)
(* and is left out.                                                        *)
(***************************************************************************)
EXTENDS Integers, Sequences, FiniteSets, TLC

VARIABLES opts, f, call, req

vars == <<opts, f, call, req>>

----------------------------------------------------------------------------
(* Bounds *)

\* most country codes handed to one call of New, over all its list options
MaxCodes == 3

\* most list options handed to one call of New
MaxOpts == 2

\* requests that may be inside the FilterIP handler together
MaxReq == 2

Reqs == 1..MaxReq

----------------------------------------------------------------------------
(* Strings *)

Lower == {"a", "c", "f", "r", "s", "u"}

Space == " "

\* unicode.ToUpper on the letters that occur in the model
UpperChar(ch) ==
    CASE ch = "a" -> "A"
      [] ch = "c" -> "C"
      [] ch = "f" -> "F"
      [] ch = "r" -> "R"
      [] ch = "s" -> "S"
      [] ch = "u" -> "U"
      [] OTHER -> ch

ToUpper(s) == [i \in 1..Len(s) |-> UpperChar(s[i])]

RECURSIVE TrimLeft(_)
TrimLeft(s) ==
    IF Len(s) > 0 /\ Head(s) = Space THEN TrimLeft(Tail(s)) ELSE s

RECURSIVE TrimRight(_)
TrimRight(s) ==
    IF Len(s) > 0 /\ s[Len(s)] = Space
    THEN TrimRight(SubSeq(s, 1, Len(s) - 1))
    ELSE s

TrimSpace(s) == TrimRight(TrimLeft(s))

\* the code strings a caller may configure
EMPTY == <<>>
BLANK == <<" ">>
us    == <<"u", "s">>
US    == <<"U", "S">>
usPad == <<" ", "u", "s", " ">>
FR    == <<"F", "R">>

CodeInputs == {EMPTY, BLANK, us, US, usPad}

----------------------------------------------------------------------------
(* The GeoIP2 database: Reader.Country(ip) *)

IPs == {"ipUS", "ipFR", "ipLower", "ipNone", "ipBad"}

\* [err, code]: the error and Country.IsoCode of the record found
Country(ip) ==
    CASE ip = "ipUS"    -> [err |-> FALSE, code |-> US]
      [] ip = "ipFR"    -> [err |-> FALSE, code |-> FR]
      [] ip = "ipLower" -> [err |-> FALSE, code |-> us]
      [] ip = "ipNone"  -> [err |-> FALSE, code |-> EMPTY]
      [] ip = "ipBad"   -> [err |-> TRUE,  code |-> EMPTY]

----------------------------------------------------------------------------
(* Options *)

Opt(k, c, fl, a) == [kind |-> k, codes |-> c, filters |-> fl, arg |-> a]

Black(c) == Opt("black", c, <<>>, "")
White(c) == Opt("white", c, <<>>, "")
Filt(fl) == Opt("filter", <<>>, fl, "")
Resp(a)  == Opt("response", <<>>, <<>>, a)
Strat(a) == Opt("strategy", <<>>, <<>>, a)

defaultConfig ==
    [strategy     |-> "nil",
     blockHandler |-> "DefaultBlockingResponse",
     blacklist    |-> <<>>,
     whitelist    |-> <<>>,
     filters      |-> <<>>]

WithBlacklistedCountries(c, codes) ==
    [c EXCEPT !.whitelist = <<>>, !.blacklist = c.blacklist \o codes]

\* the whitelist option without "c.blacklist = nil"
WithWhitelistedCountries_keepsBlacklist(c, codes) ==
    [c EXCEPT !.whitelist = c.whitelist \o codes]

WithWhitelistedCountries(c, codes) ==
    [c EXCEPT !.blacklist = <<>>, !.whitelist = c.whitelist \o codes]

WithFilter(c, fl) == [c EXCEPT !.filters = c.filters \o fl]

WithClientIPStrategy(c, strategy) ==
    IF strategy # "nil" THEN [c EXCEPT !.strategy = strategy] ELSE c

WithResponse(c, handler) ==
    IF handler # "nil" THEN [c EXCEPT !.blockHandler = handler] ELSE c

apply(opt, c) ==
    CASE opt.kind = "black"    -> WithBlacklistedCountries(c, opt.codes)
      [] opt.kind = "white"    -> WithWhitelistedCountries(c, opt.codes)
      [] opt.kind = "filter"   -> WithFilter(c, opt.filters)
      [] opt.kind = "strategy" -> WithClientIPStrategy(c, opt.arg)
      [] opt.kind = "response" -> WithResponse(c, opt.arg)

\* for _, opt := range opts { opt.apply(cfg) }
RECURSIVE applyAll(_, _)
applyAll(os, c) ==
    IF os = <<>> THEN c ELSE applyAll(Tail(os), apply(Head(os), c))

----------------------------------------------------------------------------
(* countryCodes *)

\* has answering len(c) > 0 instead of looking the code up
has_nonEmpty(c, code) == c # {}

\* has upper-casing the code before the lookup
has_upper(c, code) == ToUpper(code) \in c

has(c, code) == code \in c

RECURSIVE normalizeLoop(_, _)
normalizeLoop(codes, normalizedCodes) ==
    IF codes = <<>> THEN normalizedCodes
    ELSE LET code == Head(codes) IN
         IF Len(code) = 0
         THEN normalizeLoop(Tail(codes), normalizedCodes)
         ELSE normalizeLoop(Tail(codes),
                            normalizedCodes \cup {ToUpper(TrimSpace(code))})

\* a nil map and an empty map are both the empty set: only len and lookups
\* are ever taken of the result
normalizeCodes(codes) ==
    IF Len(codes) = 0 THEN {} ELSE normalizeLoop(codes, {})

----------------------------------------------------------------------------
(* IPFilter *)

NoFilter == [built |-> FALSE]

\* New without the len(whitelist) > 0 test
New_alwaysWhitelist(os) ==
    LET cfg == applyAll(os, defaultConfig) IN
    [built        |-> TRUE,
     cfg          |-> cfg,
     strategy     |-> cfg.strategy,
     blockHandler |-> cfg.blockHandler,
     countryCodes |-> normalizeCodes(cfg.whitelist),
     isWhitelist  |-> TRUE]

New(os) ==
    LET cfg == applyAll(os, defaultConfig)
        whitelist == normalizeCodes(cfg.whitelist)
    IN  IF Cardinality(whitelist) > 0
        THEN [built        |-> TRUE,
              cfg          |-> cfg,
              strategy     |-> cfg.strategy,
              blockHandler |-> cfg.blockHandler,
              countryCodes |-> whitelist,
              isWhitelist  |-> TRUE]
        ELSE [built        |-> TRUE,
              cfg          |-> cfg,
              strategy     |-> cfg.strategy,
              blockHandler |-> cfg.blockHandler,
              countryCodes |-> normalizeCodes(cfg.blacklist),
              isWhitelist  |-> FALSE]

\* allowed without the early return on an empty code
allowed_noEmptyCheck(codes, ip) ==
    LET country == Country(ip) IN
    IF country.err
    THEN [allowed |-> FALSE, code |-> EMPTY, err |-> TRUE]
    ELSE [allowed |-> has(codes, country.code),
          code    |-> country.code,
          err     |-> FALSE]

\* the unexported allowed: is the country of ip in codes
allowed(codes, ip) ==
    LET country == Country(ip) IN
    IF country.err
    THEN [allowed |-> FALSE, code |-> EMPTY, err |-> TRUE]
    ELSE IF Len(country.code) = 0
         THEN [allowed |-> FALSE, code |-> country.code, err |-> FALSE]
         ELSE [allowed |-> has(codes, country.code),
               code    |-> country.code,
               err     |-> FALSE]

\* Allowed returning the membership itself, whatever isWhitelist is
Allowed_noFlip(flt, ip) == allowed(flt.countryCodes, ip)

Allowed(flt, ip) ==
    LET r == allowed(flt.countryCodes, ip) IN
    IF r.err THEN r
    ELSE [allowed |-> (r.allowed = flt.isWhitelist),
          code    |-> r.code,
          err     |-> FALSE]

----------------------------------------------------------------------------
(* FilterIP: the handler it returns, one step per call it makes *)

StatusInternalServerError == 500

StatusForbidden == 403

Ev(e, a, r) == [ev |-> e, arg |-> a, ret |-> r]

\* log: the calls the handler has made so far, in order
\* status: the status the middleware itself wrote (0: none)
IdleReq ==
    [pc |-> "idle", fi |-> 1, ip |-> "", log |-> <<>>, status |-> 0]

\* the filter loop without the return after next(c)
filterStep_noReturn(flt, q, b) ==
    LET lg == Append(q.log, Ev("filter", flt.cfg.filters[q.fi], b)) IN
    [q EXCEPT !.log = IF b THEN Append(lg, Ev("next", "", TRUE)) ELSE lg,
              !.fi = q.fi + 1]

\* one turn of the loop over f.cfg.filters; b is what the filter returned
filterStep(flt, q, b) ==
    LET lg == Append(q.log, Ev("filter", flt.cfg.filters[q.fi], b)) IN
    IF b
    THEN [q EXCEPT !.log = Append(lg, Ev("next", "", TRUE)), !.pc = "done"]
    ELSE [q EXCEPT !.log = lg, !.fi = q.fi + 1]

\* c.ClientIP() or f.strategy.ClientIP(c); res is what it returned
clientIP(flt, q, res) ==
    LET src == IF flt.strategy = "nil" THEN "c.ClientIP"
               ELSE "strategy.ClientIP"
        lg  == Append(q.log, Ev("clientip", src, ~res.err))
    IN  IF res.err
        THEN [q EXCEPT !.log = Append(lg, Ev("http.Error", "", FALSE)),
                       !.status = StatusInternalServerError,
                       !.pc = "done"]
        ELSE [q EXCEPT !.log = lg, !.ip = res.ip, !.pc = "allowed"]

\* the blockHandler: DefaultBlockingResponse writes 403, any other handler
\* writes what it likes
blockResponse(flt, q) ==
    [q EXCEPT !.log = Append(q.log, Ev("block", flt.blockHandler, FALSE)),
              !.status = IF flt.blockHandler = "DefaultBlockingResponse"
                         THEN StatusForbidden ELSE q.status,
              !.pc = "done"]

\* the handler without the return after f.blockHandler(c)
decide_noReturn(flt, q) ==
    LET res == Allowed(flt, q.ip)
        q1  == [q EXCEPT !.log = Append(q.log, Ev("Allowed", q.ip, ~res.err))]
        q2  == IF ~res.allowed THEN blockResponse(flt, q1) ELSE q1
    IN  IF res.err
        THEN [q1 EXCEPT !.log = Append(q1.log, Ev("http.Error", "", FALSE)),
                        !.status = StatusInternalServerError,
                        !.pc = "done"]
        ELSE [q2 EXCEPT !.log = Append(q2.log, Ev("next", "", TRUE)),
                        !.pc = "done"]

\* f.Allowed(ipAddr.IP) and the response that follows from it
decide(flt, q) ==
    LET res == Allowed(flt, q.ip)
        q1  == [q EXCEPT !.log = Append(q.log, Ev("Allowed", q.ip, ~res.err))]
    IN  IF res.err
        THEN [q1 EXCEPT !.log = Append(q1.log, Ev("http.Error", "", FALSE)),
                        !.status = StatusInternalServerError,
                        !.pc = "done"]
        ELSE IF ~res.allowed
             THEN blockResponse(flt, q1)
             ELSE [q1 EXCEPT !.log = Append(q1.log, Ev("next", "", TRUE)),
                             !.pc = "done"]

----------------------------------------------------------------------------
(* State *)

\* the sum of the first n entries of js
RECURSIVE SumTo(_, _)
SumTo(js, n) == IF n = 0 THEN 0 ELSE SumTo(js, n - 1) + js[n]

\* the list options of the given kinds, the i-th taking the next js[i] codes
\* of flat
ListOptSeq(kinds, js, flat) ==
    [i \in 1..Len(js) |->
        Opt(kinds[i],
            SubSeq(flat, SumTo(js, i - 1) + 1, SumTo(js, i)),
            <<>>, "")]

\* opts is a list of at most MaxOpts list options that take at most MaxCodes
\* codes together
ListOptsOnly ==
    \E n \in 0..MaxOpts :
      \E js \in [1..n -> 0..MaxCodes] :
        /\ SumTo(js, n) <= MaxCodes
        /\ \E kinds \in [1..n -> {"black", "white"}] :
             \E flat \in [1..SumTo(js, n) -> CodeInputs] :
               opts = ListOptSeq(kinds, js, flat)

\* option lists that also configure filters, a response and a strategy
MiddlewareOpts ==
    { <<>>,
      <<Filt(<<"fA", "fB">>)>>,
      <<Resp("nil"), Strat("nil")>>,
      <<Resp("custom")>>,
      <<White(<<US>>), Filt(<<"fA">>)>>,
      <<White(<<EMPTY>>), Filt(<<"fB">>)>>,
      <<White(<<BLANK>>), Strat("custom")>>,
      <<Filt(<<"fA">>), Black(<<us>>), Filt(<<"fB">>)>>,
      <<Black(<<US, FR>>), Resp("custom")>>,
      <<Strat("custom"), White(<<usPad, FR>>), Filt(<<"fB", "fA">>)>>,
      <<White(<<FR>>), Black(<<usPad>>)>>,
      <<Black(<<FR>>), White(<<us>>), Resp("custom"), Filt(<<"fA">>)>> }

NoCall == [made |-> FALSE]

Init ==
    /\ (ListOptsOnly \/ opts \in MiddlewareOpts)
    /\ f = NoFilter
    /\ call = NoCall
    /\ req = [r \in Reqs |-> IdleReq]

NewCall ==
    /\ ~f.built
    /\ f' = New(opts)
    /\ UNCHANGED <<opts, call, req>>

AllowedCall(ip) ==
    /\ f.built
    /\ call' = [made |-> TRUE, ip |-> ip, res |-> Allowed(f, ip)]
    /\ UNCHANGED <<opts, f, req>>

Next ==
    \/ NewCall
    \/ \E ip \in IPs : AllowedCall(ip)

Spec == Init /\ [][Next]_vars

----------------------------------------------------------------------------
(* The middleware serving requests *)

InitMW ==
    /\ opts \in MiddlewareOpts
    /\ f = NoFilter
    /\ call = NoCall
    /\ req = [r \in Reqs |-> IdleReq]

\* the router invokes the handler for a request
Serve(r) ==
    /\ f.built
    /\ req[r].pc = "idle"
    /\ req' = [req EXCEPT ![r].pc = "filters"]
    /\ UNCHANGED <<opts, f, call>>

FilterStep(r) ==
    /\ req[r].pc = "filters"
    /\ req[r].fi <= Len(f.cfg.filters)
    /\ \E b \in BOOLEAN : req' = [req EXCEPT ![r] = filterStep(f, req[r], b)]
    /\ UNCHANGED <<opts, f, call>>

ClientIPResults ==
    {[err |-> TRUE, ip |-> ""]} \cup {[err |-> FALSE, ip |-> ip] : ip \in IPs}

ClientIPStep(r) ==
    /\ req[r].pc = "filters"
    /\ req[r].fi > Len(f.cfg.filters)
    /\ \E res \in ClientIPResults :
           req' = [req EXCEPT ![r] = clientIP(f, req[r], res)]
    /\ UNCHANGED <<opts, f, call>>

\* the handler turning the filter off for everyone when its lookup fails
DecideStep_disablesFilter(r) ==
    /\ req[r].pc = "allowed"
    /\ req' = [req EXCEPT ![r] = decide(f, req[r])]
    /\ f' = IF Allowed(f, req[r].ip).err
            THEN [f EXCEPT !.countryCodes = {}, !.isWhitelist = FALSE]
            ELSE f
    /\ UNCHANGED <<opts, call>>

DecideStep(r) ==
    /\ req[r].pc = "allowed"
    /\ req' = [req EXCEPT ![r] = decide(f, req[r])]
    /\ UNCHANGED <<opts, f, call>>

NextMW ==
    \/ NewCall
    \/ \E r \in Reqs : Serve(r)
    \/ \E r \in Reqs : FilterStep(r)
    \/ \E r \in Reqs : ClientIPStep(r)
    \/ \E r \in Reqs : DecideStep(r)

SpecMW == InitMW /\ [][NextMW]_vars

\* requests in the handler while other goroutines call Allowed on the same
\* filter
NextConc ==
    \/ NewCall
    \/ \E ip \in IPs : AllowedCall(ip)
    \/ \E r \in Reqs : Serve(r)
    \/ \E r \in Reqs : FilterStep(r)
    \/ \E r \in Reqs : ClientIPStep(r)
    \/ \E r \in Reqs : DecideStep(r)

SpecConc == InitMW /\ [][NextConc]_vars

----------------------------------------------------------------------------
(* Properties of New and Allowed, checked under Spec *)

\* the lookup of the last Allowed call
Looked == Country(call.ip)

\* the call was made and its lookup succeeded
Resolved == f.built /\ call.made /\ ~Looked.err

IsListOpt(o) == o.kind \in {"white", "black"}

RECURSIVE LastListKind(_)
LastListKind(os) ==
    IF os = <<>> THEN "none"
    ELSE IF IsListOpt(os[Len(os)]) THEN os[Len(os)].kind
         ELSE LastListKind(SubSeq(os, 1, Len(os) - 1))

NoLower(s) == \A i \in 1..Len(s) : s[i] \notin Lower

Trimmed(s) == Len(s) = 0 \/ (s[1] # Space /\ s[Len(s)] # Space)

\* C1: under a whitelist with a non-empty set S, an IP that resolves to a
\* non-empty code C gets (true, C, nil) when C is in S and (false, C, nil)
\* when it is not.
C1_WhitelistMembership ==
    (Resolved /\ f.isWhitelist /\ f.countryCodes # {} /\ Looked.code # EMPTY)
        => call.res = [allowed |-> Looked.code \in f.countryCodes,
                       code    |-> Looked.code,
                       err     |-> FALSE]

C1_Witness ==
    /\ Resolved /\ f.isWhitelist
    /\ Looked.code = FR /\ US \in f.countryCodes /\ FR \notin f.countryCodes
    /\ call.res.allowed = FALSE

\* C2: under a blacklist with set S, an IP that resolves to a non-empty
\* code C gets (false, C, nil) when C is in S and (true, C, nil) when it is
\* not.
C2_BlacklistMembership ==
    (Resolved /\ ~f.isWhitelist /\ Looked.code # EMPTY)
        => call.res = [allowed |-> Looked.code \notin f.countryCodes,
                       code    |-> Looked.code,
                       err     |-> FALSE]

C2_Witness ==
    /\ Resolved /\ ~f.isWhitelist
    /\ Looked.code = US /\ US \in f.countryCodes
    /\ call.res.allowed = FALSE

\* C3: a filter built with no whitelist and no blacklist option allows every
\* IP whose lookup succeeds, the empty country code included.
C3_UnrestrictedAllowsAll ==
    (Resolved /\ \A i \in 1..Len(opts) : ~IsListOpt(opts[i]))
        => (call.res.allowed /\ ~call.res.err)

C3_Witness ==
    /\ Resolved
    /\ Len(opts) > 0
    /\ \A i \in 1..Len(opts) : ~IsListOpt(opts[i])
    /\ Looked.code = EMPTY
    /\ call.res.allowed

\* C4: an IP whose lookup succeeds with an empty country code gets the empty
\* code and no error; it is denied under a whitelist and allowed under a
\* blacklist or no list, whatever the set holds.
C4_EmptyCode ==
    (Resolved /\ Looked.code = EMPTY)
        => /\ call.res.code = EMPTY
           /\ ~call.res.err
           /\ call.res.allowed = ~f.isWhitelist

C4_Witness ==
    /\ Resolved /\ Looked.code = EMPTY
    /\ f.isWhitelist /\ EMPTY \in f.countryCodes
    /\ ~call.res.allowed

\* the options with the codes of every list option of the other kind than
\* the last one removed
EraseOtherKind(os) ==
    [i \in 1..Len(os) |->
        IF IsListOpt(os[i]) /\ os[i].kind # LastListKind(os)
        THEN [os[i] EXCEPT !.codes = <<>>]
        ELSE os[i]]

\* C5: after New has applied the options, the configured whitelist and
\* blacklist are never both non-empty, and every Allowed call returns what
\* it returns when the codes given to list options of the kind not applied
\* last are taken away.
C5_ListsExclusive ==
    /\ f.built => (f.cfg.whitelist = <<>> \/ f.cfg.blacklist = <<>>)
    /\ (f.built /\ call.made)
          => call.res = Allowed(New(EraseOtherKind(opts)), call.ip)

C5_Witness ==
    /\ Resolved
    /\ Len(opts) = 2
    /\ opts[1].kind = "black" /\ US \in normalizeCodes(opts[1].codes)
    /\ opts[2].kind = "white" /\ normalizeCodes(opts[2].codes) = {}
    /\ Looked.code = US
    /\ call.res.allowed

\* C6: when the last list option is WithWhitelistedCountries, every IP whose
\* resolved code is not in the normalized whitelist is denied.
C6_WhitelistDeniesByDefault ==
    (Resolved /\ LastListKind(opts) = "white"
              /\ Looked.code \notin normalizeCodes(f.cfg.whitelist))
        => ~call.res.allowed

\* C7: normalizeCodes returns only uppercase, trimmed, non-empty codes, and
\* codes that differ in case or surrounding space become one member.
C7_NormalizedCodes ==
    /\ f.built =>
          \A s \in f.countryCodes : s # EMPTY /\ NoLower(s) /\ Trimmed(s)
    /\ normalizeCodes(<<us, US, usPad>>) = {US}

\* C8 as stated: the resolved code is a member of S whenever its uppercase
\* form is in S.
C8_UppercasedLookup ==
    (Resolved /\ Looked.code # EMPTY)
        => call.res.allowed = (f.isWhitelist <=> ToUpper(Looked.code) \in f.countryCodes)

\* the codes of the list New has taken the set from
ActiveList == IF f.isWhitelist THEN f.cfg.whitelist ELSE f.cfg.blacklist

\* C8: Allowed looks the resolved code up as the lookup returned it: the
\* code is a member of S exactly when it is itself in S.  A configured code
\* that differs only in case from an uppercase resolved code is matched, a
\* resolved code with a lowercase letter is matched by nothing.
C8_ExactLookup ==
    (Resolved /\ Looked.code # EMPTY)
        => /\ call.res.allowed = (f.isWhitelist <=> Looked.code \in f.countryCodes)
           /\ (NoLower(Looked.code)
                 /\ \E i \in 1..Len(ActiveList) :
                       ToUpper(ActiveList[i]) = Looked.code)
                => call.res.allowed = f.isWhitelist
           /\ ~NoLower(Looked.code) => call.res.allowed = ~f.isWhitelist

C8_Witness ==
    /\ Resolved /\ Looked.code = us
    /\ f.isWhitelist /\ US \in f.countryCodes
    /\ ~call.res.allowed

----------------------------------------------------------------------------
(* Properties of FilterIP, checked under SpecMW *)

Outcomes(q) ==
    SelectSeq(q.log, LAMBDA e : e.ev \in {"next", "block", "http.Error"})

Count(q, e) == Len(SelectSeq(q.log, LAMBDA x : x.ev = e))

Bypassed(q) == \E i \in 1..Len(q.log) : q.log[i].ev = "filter" /\ q.log[i].ret

\* C9: the filters run in the order they were configured and the loop stops
\* at the first that returns true; next is then called once and nothing
\* else is: no later filter, no client-IP extraction, no lookup, no block
\* handler, whatever the policy.
C9_BypassShortCircuits ==
    \A r \in Reqs :
        LET q == req[r] IN
        /\ \A j \in 1..Len(q.log) :
              q.log[j].ev = "filter" => q.log[j].arg = f.cfg.filters[j]
        /\ \A i \in 1..Len(q.log) :
              (q.log[i].ev = "filter" /\ q.log[i].ret) =>
                 /\ \A j \in 1..(i - 1) :
                       q.log[j].ev = "filter" /\ ~q.log[j].ret
                 /\ Len(q.log) = i + 1
                 /\ q.log[i + 1].ev = "next"
                 /\ q.pc = "done"
                 /\ q.status = 0

C9_Witness ==
    \E r \in Reqs :
        /\ f.built /\ f.isWhitelist
        /\ Len(req[r].log) = 3
        /\ req[r].log[2].ev = "filter" /\ req[r].log[2].ret
        /\ req[r].log[3].ev = "next"
        /\ req[r].pc = "done"

ExtractionFailed(q) ==
    \E i \in 1..Len(q.log) : q.log[i].ev = "clientip" /\ ~q.log[i].ret

\* C10: a request that no filter bypasses ends in one outcome only: 500 when
\* the client IP cannot be extracted or the lookup fails, the block handler
\* (403 by default) when the policy denies, next otherwise.  next is not
\* called in the first three cases, and neither next nor the block handler
\* on a failure.
C10_OneOutcome ==
    \A r \in Reqs :
        LET q == req[r] IN
        /\ (q.pc # "done") => Outcomes(q) = <<>>
        /\ (q.pc = "done" /\ ~Bypassed(q)) =>
              /\ Len(Outcomes(q)) = 1
              /\ Count(q, "filter") = Len(f.cfg.filters)
              /\ IF ExtractionFailed(q)
                 THEN /\ Outcomes(q)[1].ev = "http.Error"
                      /\ q.status = StatusInternalServerError
                      /\ Count(q, "Allowed") = 0
                 ELSE IF Allowed(f, q.ip).err
                 THEN /\ Outcomes(q)[1].ev = "http.Error"
                      /\ q.status = StatusInternalServerError
                 ELSE IF ~Allowed(f, q.ip).allowed
                 THEN /\ Outcomes(q)[1] = Ev("block", f.blockHandler, FALSE)
                      /\ (f.blockHandler = "DefaultBlockingResponse")
                            => q.status = StatusForbidden
                 ELSE /\ Outcomes(q)[1].ev = "next"
                      /\ q.status = 0

C10_Witness ==
    \E r \in Reqs :
        /\ req[r].pc = "done"
        /\ ~Bypassed(req[r])
        /\ Count(req[r], "filter") = 2
        /\ Count(req[r], "block") = 1
        /\ req[r].status = StatusForbidden

----------------------------------------------------------------------------
(* Properties of concurrent requests, checked under SpecConc *)

\* the policy of a built filter
Policy(flt) == <<flt.countryCodes, flt.isWhitelist>>

\* what the handler does for ip when it is the only request the filter
\* built from opts ever serves
AloneOutcome(ip) ==
    LET res == Allowed(New(opts), ip) IN
    IF res.err THEN "http.Error"
    ELSE IF ~res.allowed THEN "block"
    ELSE "next"

\* every finished request that reached the lookup ended as it would alone
VerdictsAsAlone ==
    \A r \in Reqs :
        LET q == req[r] IN
        (q.pc = "done" /\ ~Bypassed(q) /\ ~ExtractionFailed(q)) =>
            /\ Len(Outcomes(q)) = 1
            /\ Outcomes(q)[1].ev = AloneOutcome(q.ip)

\* every Allowed call returned what the filter as New built it returns
CallsAsAlone ==
    (f.built /\ call.made) => call.res = Allowed(New(opts), call.ip)

\* C11: once New has returned, no Allowed call and no step of FilterIP
\* changes the country-code set or the whitelist flag; however the requests
\* interleave, each one gets the verdict its IP gets when handled alone, so
\* an extraction or lookup failure of one request changes no other's outcome.
C11_PolicyImmutable ==
    /\ [][f.built => (f'.built /\ Policy(f') = Policy(f))]_vars
    /\ [](VerdictsAsAlone /\ CallsAsAlone)

\* one request has failed in the lookup, another on the same filter has been
\* blocked by the whitelist and a third caller's Allowed was answered
C11_Witness ==
    \E r1, r2 \in Reqs :
        /\ r1 # r2
        /\ f.built /\ f.isWhitelist
        /\ req[r1].pc = "done" /\ req[r1].ip = "ipBad"
        /\ req[r1].status = StatusInternalServerError
        /\ req[r2].pc = "done" /\ req[r2].ip = "ipFR"
        /\ Count(req[r2], "block") = 1
        /\ call.made /\ call.ip = "ipUS"

====
